---------------------------- MODULE Spec2Model ----------------------------
(***************************************************************************)
(* Model of the execution-trace pipeline of SDET-GENIE                     *)
(* (src/app_modified.py): execute_test and the part of main that drives    *)
(* it.                                                                     *)
(*                                                                         *)
(* Text is modelled as a sequence of tokens.  A token is a fragment of the *)
(* text that the program's patterns never cut in two: the newline "\n",    *)
(* the blank " ", the literals the regular expressions look for, and       *)
(* fragments that contain none of them.  A Python dict is a function       *)
(* whose DOMAIN is the set of keys present.                                *)
(***************************************************************************)
EXTENDS Integers, Sequences, FiniteSets, TLC

(***************************************************************************)
(* Bounds of the exploration.                                              *)
(***************************************************************************)
\* Raw items (action entries plus extracted-content items) the agent
\* reports over the whole session.
MaxItems == 3

\* Agent runs started over the whole session.
MaxAgentRuns == 2

\* Length of the texts of the splitter's own specification.
MaxTextLen == 4

(***************************************************************************)
(* Dict and sequence helpers.                                              *)
(***************************************************************************)
EmptyDict == [k \in {} |-> {}]

\* d[k] = v  (Python item assignment on a dict)
Put(d, k, v) == [x \in (DOMAIN d) \cup {k} |-> IF x = k THEN v ELSE d[x]]

Has(d, k) == k \in DOMAIN d

(***************************************************************************)
(* Scenario splitting, lines 84-94.                                        *)
(***************************************************************************)
NL == "\n"

Whitespace == {" ", "\t"}

\* steps.split("\n"): the text cut at every newline; always at least one
\* line, the empty text gives one empty line.
RECURSIVE SplitLines(_, _)
SplitLines(text, line) ==
    IF text = <<>> THEN <<line>>
    ELSE IF Head(text) = NL THEN <<line>> \o SplitLines(Tail(text), <<>>)
    ELSE SplitLines(Tail(text), Append(line, Head(text)))

\* line.strip()
RECURSIVE LStrip(_)
LStrip(line) ==
    IF line # <<>> /\ Head(line) \in Whitespace \cup {NL}
    THEN LStrip(Tail(line)) ELSE line

RECURSIVE RStrip(_)
RStrip(line) ==
    IF line # <<>> /\ line[Len(line)] \in Whitespace \cup {NL}
    THEN RStrip(SubSeq(line, 1, Len(line) - 1)) ELSE line

Strip(line) == RStrip(LStrip(line))

\* A variant of StartsScenario that does not trim the line.
StartsScenarioUntrimmed(line) == line # <<>> /\ Head(line) = "Scenario:"

\* line.strip().startswith("Scenario:")
StartsScenario(line) ==
    LET t == Strip(line) IN t # <<>> /\ Head(t) = "Scenario:"

\* "\n".join(lines)
RECURSIVE JoinLines(_)
JoinLines(lines) ==
    IF lines = <<>> THEN <<>>
    ELSE IF Len(lines) = 1 THEN Head(lines)
    ELSE Head(lines) \o <<NL>> \o JoinLines(Tail(lines))

\* The loop of lines 86-92 over the remaining lines, and the flush of
\* lines 93-94.  current_scenario is a list of lines, truthy when non-empty.
RECURSIVE SplitLoop(_, _, _)
SplitLoop(lines, scenarios, current_scenario) ==
    IF lines = <<>>
    THEN IF current_scenario # <<>>
         THEN Append(scenarios, JoinLines(current_scenario))
         ELSE scenarios
    ELSE LET line == Head(lines) IN
         IF StartsScenario(line)
         THEN SplitLoop(Tail(lines),
                        IF current_scenario # <<>>
                        THEN Append(scenarios, JoinLines(current_scenario))
                        ELSE scenarios,
                        <<line>>)
         ELSE IF current_scenario # <<>>
         THEN SplitLoop(Tail(lines), scenarios, Append(current_scenario, line))
         ELSE SplitLoop(Tail(lines), scenarios, current_scenario)

SplitScenarios(text) == SplitLoop(SplitLines(text, <<>>), <<>>, <<>>)

(***************************************************************************)
(* Pattern extraction.                                                     *)
(***************************************************************************)
XPathOpen == "xpath='"

Quote == "'"

\* Tokens that hold a quote character.
QuoteTokens == {XPathOpen, Quote}

\* The longest run of quote-free tokens at the head of text: [^']*
RECURSIVE QuoteFreePrefix(_)
QuoteFreePrefix(text) ==
    IF text = <<>> \/ Head(text) \in QuoteTokens THEN <<>>
    ELSE <<Head(text)>> \o QuoteFreePrefix(Tail(text))

\* re.search(r"xpath='([^']+)'", str(element_info)), lines 162-164 and
\* 211-214: a dict that holds group 1 under "group" on a match, the empty
\* dict otherwise.  The search tries every position from the left; at a
\* position that opens with xpath=' the group is the quote-free run that
\* follows, which has to be non-empty and followed by a quote (the quote may
\* be the one that ends a later xpath=', whose first characters then belong
\* to the group).
RECURSIVE SearchXPath(_)
SearchXPath(text) ==
    IF text = <<>> THEN EmptyDict
    ELSE IF Head(text) # XPathOpen THEN SearchXPath(Tail(text))
    ELSE LET run  == QuoteFreePrefix(Tail(text))
             rest == SubSeq(text, Len(run) + 2, Len(text))
         IN IF rest # <<>> /\ Head(rest) = Quote /\ run # <<>>
            THEN [group |-> run]
            ELSE IF rest # <<>> /\ Head(rest) = XPathOpen
            THEN [group |-> Append(run, "xpath=")]
            ELSE SearchXPath(Tail(text))

Phrase == "The xpath of the element is "

ElementWord == "element "

\* The longest run of tokens without a newline at the head of text: .*
RECURSIVE LinePrefix(_)
LinePrefix(text) ==
    IF text = <<>> \/ Head(text) = NL THEN <<>>
    ELSE <<Head(text)>> \o LinePrefix(Tail(text))

\* re.search(r"The xpath of the element is (.+)", content), lines 232-234:
\* group 1 is greedy and runs to the end of the line.
RECURSIVE SearchPhrase(_)
SearchPhrase(text) ==
    IF text = <<>> THEN EmptyDict
    ELSE IF Head(text) = Phrase /\ LinePrefix(Tail(text)) # <<>>
    THEN [group |-> LinePrefix(Tail(text))]
    ELSE SearchPhrase(Tail(text))

Digits == {"0", "1", "2", "3", "4", "5", "6", "7", "8", "9"}

DigitValue(d) ==
    CASE d = "0" -> 0 [] d = "1" -> 1 [] d = "2" -> 2 [] d = "3" -> 3
      [] d = "4" -> 4 [] d = "5" -> 5 [] d = "6" -> 6 [] d = "7" -> 7
      [] d = "8" -> 8 [] d = "9" -> 9

\* The longest run of digits at the head of text: \d*
RECURSIVE DigitPrefix(_)
DigitPrefix(text) ==
    IF text = <<>> \/ Head(text) \notin Digits THEN <<>>
    ELSE <<Head(text)>> \o DigitPrefix(Tail(text))

\* re.search(r"element (\d+)", content), lines 238-240.
RECURSIVE SearchElementIndex(_)
SearchElementIndex(text) ==
    IF text = <<>> THEN EmptyDict
    ELSE IF Head(text) = ElementWord /\ DigitPrefix(Tail(text)) # <<>>
    THEN [group |-> DigitPrefix(Tail(text))]
    ELSE SearchElementIndex(Tail(text))

\* int(index_match.group(1)), line 242.
RECURSIVE ParseInt(_, _)
ParseInt(digits, acc) ==
    IF digits = <<>> THEN acc
    ELSE ParseInt(Tail(digits), 10 * acc + DigitValue(Head(digits)))

(***************************************************************************)
(* Element resolution, lines 131-243.                                      *)
(*                                                                         *)
(* A raw action entry (action_data) is a dict: the action's key with its   *)
(* parameters, and "interacted_element" with the text of the element       *)
(* description, the empty text when the agent reports None.  The resolver  *)
(* works on a record r of the ActionRecord under construction, the shared  *)
(* element_xpath_map, and the log of the writes to the map (the log is     *)
(* bookkeeping of the model: one entry per assignment the code executes).  *)
(***************************************************************************)
\* Python's None used as an element index.
NoneIndex == 0 - 1

\* Lines 132-136.
ActionName(action_names, i) ==
    IF i < Len(action_names) THEN action_names[i + 1] ELSE "Unknown Action"

\* Lines 139-143.
NewActionDetail(name, i) ==
    [name |-> name, index |-> i, element_details |-> EmptyDict]

\* action_detail["element_details"][key] = value
SetDetail(r, key, value) ==
    [r EXCEPT !.action_detail.element_details =
                  Put(r.action_detail.element_details, key, value)]

\* A variant of WriteXPath that keeps the value an index already has (what
\* dict.setdefault would do).
WriteXPathIfAbsent(r, channel, element_index, xpath) ==
    [r EXCEPT !.element_xpath_map =
                  IF Has(r.element_xpath_map, element_index) THEN @
                  ELSE Put(@, element_index, xpath),
              !.writes = Append(r.writes, [channel |-> channel,
                                           index |-> element_index,
                                           xpath |-> xpath])]

\* element_xpath_map[element_index] = xpath, lines 167, 217-219 and 243.
\* channel names the branch that writes, for the log.
WriteXPath(r, channel, element_index, xpath) ==
    [r EXCEPT !.element_xpath_map = Put(r.element_xpath_map, element_index, xpath),
              !.writes = Append(r.writes, [channel |-> channel,
                                           index |-> element_index,
                                           xpath |-> xpath])]

\* "interacted_element" in action_data and action_data["interacted_element"]
HasInteractedElement(action_data) ==
    Has(action_data, "interacted_element") /\ action_data.interacted_element # <<>>

\* The discovery branch, lines 147-170.
ResolveDiscovery(action_data, r) ==
    LET params        == action_data.get_xpath_of_element
        element_index == IF Has(params, "index") THEN params.index ELSE NoneIndex
        r1            == SetDetail(r, "index", element_index)
        xpath_match   == SearchXPath(action_data.interacted_element)
    IN IF HasInteractedElement(action_data) /\ Has(xpath_match, "group")
       THEN SetDetail(WriteXPath(r1, "discovery", element_index, xpath_match.group),
                      "xpath", xpath_match.group)
       ELSE r1

InteractionKeys == <<"input_text", "click_element", "perform_element_action">>

\* A variant of ResolveInteractionKey without the lookup of lines 195-199.
ResolveInteractionKeyNoLookup(key, action_data, r) ==
    IF ~Has(action_data, key) \/ ~Has(action_data[key], "index") THEN r
    ELSE LET element_index == action_data[key].index
             r1 == SetDetail(r, "index", element_index)
             xpath_match == SearchXPath(action_data.interacted_element)
         IN IF HasInteractedElement(action_data) /\ Has(xpath_match, "group")
            THEN SetDetail(WriteXPath(r1, "interaction", element_index,
                                      xpath_match.group),
                           "xpath", xpath_match.group)
            ELSE r1

\* A variant of ResolveInteractionKey that writes the fresh XPath to the map
\* but leaves an XPath that was attached from the map on the record.
ResolveInteractionKeyStale(key, action_data, r) ==
    IF ~Has(action_data, key) \/ ~Has(action_data[key], "index") THEN r
    ELSE LET element_index == action_data[key].index
             r1 == SetDetail(r, "index", element_index)
             r2 == IF Has(r1.element_xpath_map, element_index)
                   THEN SetDetail(r1, "xpath", r1.element_xpath_map[element_index])
                   ELSE r1
             xpath_match == SearchXPath(action_data.interacted_element)
         IN IF HasInteractedElement(action_data) /\ Has(xpath_match, "group")
            THEN LET r3 == WriteXPath(r2, "interaction", element_index,
                                      xpath_match.group)
                 IN IF Has(r2.action_detail.element_details, "xpath") THEN r3
                    ELSE SetDetail(r3, "xpath", xpath_match.group)
            ELSE r2

\* The body of the loop of lines 182-222 for one key.
ResolveInteractionKey(key, action_data, r) ==
    IF ~Has(action_data, key) \/ ~Has(action_data[key], "index") THEN r
    ELSE LET element_index == action_data[key].index
             r1 == SetDetail(r, "index", element_index)
             r2 == IF Has(r1.element_xpath_map, element_index)
                   THEN SetDetail(r1, "xpath", r1.element_xpath_map[element_index])
                   ELSE r1
             xpath_match == SearchXPath(action_data.interacted_element)
         IN IF HasInteractedElement(action_data) /\ Has(xpath_match, "group")
            THEN SetDetail(WriteXPath(r2, "interaction", element_index,
                                      xpath_match.group),
                           "xpath", xpath_match.group)
            ELSE r2

\* The loop of lines 182-222 over the keys that are left.
RECURSIVE ResolveInteraction(_, _, _)
ResolveInteraction(keys, action_data, r) ==
    IF keys = <<>> THEN r
    ELSE ResolveInteraction(Tail(keys), action_data,
                            ResolveInteractionKey(Head(keys), action_data, r))

\* A variant of ResolveAction that takes an interaction action for any other
\* action.
ResolveActionDiscoveryOnly(action_data, r) ==
    IF Has(action_data, "get_xpath_of_element")
    THEN ResolveDiscovery(action_data, r)
    ELSE r

\* One pass of the loop of lines 131-224, up to the append: the classification
\* of lines 146 and 173-180 and the branch taken.
ResolveAction(action_data, r) ==
    IF Has(action_data, "get_xpath_of_element")
    THEN ResolveDiscovery(action_data, r)
    ELSE IF \E n \in DOMAIN InteractionKeys : Has(action_data, InteractionKeys[n])
    THEN ResolveInteraction(InteractionKeys, action_data, r)
    ELSE r

\* One pass of the loop of lines 227-243 after the append of line 228.  An
\* extracted-content item is a record: is_str tells a string from any other
\* value, text is the string.
ResolveContent(content, r) ==
    IF ~content.is_str THEN r
    ELSE LET xpath_match == SearchPhrase(content.text)
             index_match == SearchElementIndex(content.text)
         IN IF Has(xpath_match, "group") /\ Has(index_match, "group")
            THEN WriteXPath(r, "free-text", ParseInt(index_match.group, 0),
                            xpath_match.group)
            ELSE r

(***************************************************************************)
(* The inputs: Gherkin texts, and what the browser agent can report.       *)
(***************************************************************************)
SeqsUpTo(S, n) == UNION {[1..m -> S] : m \in 0..n}

\* Texts the session can hold as generated_steps.
TextNoScenario == <<"Feature:", " ", "Login", NL, "step1">>

TextOne == <<"Scenario:", " ", "A", NL, "step1">>

TextTwo == <<"Scenario:", " ", "A", NL, "step1", NL,
             "Scenario:", " ", "B", NL, "step2">>

Texts == {TextNoScenario, TextOne, TextTwo}

\* Texts of the splitter's own specification: every text of at most
\* MaxTextLen tokens, and the texts of the session.
SplitTokens == {NL, " ", "Scenario:", "A", "step1"}

SplitTexts == SeqsUpTo(SplitTokens, MaxTextLen) \cup Texts

\* str(element_info) of a DOMHistoryElement.  The last one is the text of an
\* element whose XPath holds a quote, which Python prints between double
\* quotes.
DescDiv == <<"DOMHistoryElement(tag_name=", Quote, "div", Quote, ", ",
             XPathOpen, "//div[@id=1]", Quote, ", highlight_index=5)">>

DescInput == <<"DOMHistoryElement(tag_name=", Quote, "input", Quote, ", ",
               XPathOpen, "//input[2]", Quote, ", highlight_index=5)">>

DescDoubleQuoted == <<"DOMHistoryElement(tag_name=", Quote, "a", Quote,
                      ", xpath=\"//a[@title=", Quote, "x", Quote, "]\")">>

\* Raw action entries: each carries one action key, as the agent's action
\* model reports them.
ActionEntries ==
    { [select_dropdown_option |-> [index |-> 5, text |-> <<"x">>],
       interacted_element |-> DescDiv],
      [get_xpath_of_element |-> [index |-> 5],
       interacted_element |-> DescDiv],
      [click_element |-> [index |-> 5],
       interacted_element |-> <<>>],
      [input_text |-> [index |-> 5, text |-> <<"abc">>],
       interacted_element |-> DescInput],
      [get_xpath_of_element |-> [index |-> 1],
       interacted_element |-> DescDoubleQuoted] }

\* Extracted-content items: the agent reports strings.
ContentFoundNear ==
    [is_str |-> TRUE,
     text |-> <<Phrase, "//button[2]", ", found near ", ElementWord, "5">>]

ContentXPathOnly == [is_str |-> TRUE, text |-> <<Phrase, "//button[2]">>]

ContentItems == {ContentFoundNear, ContentXPathOnly}

\* history.final_result(): a string or a structured value.
FinalResults ==
    { [is_str |-> TRUE, text |-> "Login succeeded"],
      [is_str |-> FALSE, value |-> [success |-> TRUE]] }

ActionKeys == {"get_xpath_of_element", "input_text", "click_element",
               "perform_element_action", "select_dropdown_option"}

\* history.action_names(): the parallel list, the key of each entry.
KeyOf(action_data) == CHOOSE k \in ActionKeys : Has(action_data, k)

\* The history object one agent run returns for scenario number n: urls and
\* errors are tagged with n.
AgentHistory(n, actions, contents, result) ==
    [model_actions     |-> actions,
     action_names      |-> [k \in DOMAIN actions |-> KeyOf(actions[k])],
     extracted_content |-> contents,
     urls              |-> <<[scenario |-> n, url |-> "page"]>>,
     errors            |-> <<[scenario |-> n, error |-> "None"]>>,
     final_result      |-> result]

(***************************************************************************)
(* Results and the ExecutionRecord.                                        *)
(***************************************************************************)
\* A variant of NormalizeResult that writes the string into details too.
NormalizeResultRepeatsStatus(result) ==
    IF result.is_str
    THEN [status |-> result.text, details |-> result.text]
    ELSE result.value

\* Lines 118-124.
NormalizeResult(result) ==
    IF result.is_str
    THEN [status |-> result.text, details |-> "Execution completed"]
    ELSE result.value

\* A variant of BuildRecord that takes the records of the last agent run
\* only, as it does for the urls.
BuildRecordOfLastScenario(history, all_actions, element_xpath_map, all_extracted_content, ss) ==
    [urls              |-> history.urls,
     action_names      |-> history.action_names,
     detailed_actions  |-> SubSeq(all_actions,
                                  Len(all_actions) - Len(history.model_actions) + 1,
                                  Len(all_actions)),
     element_xpaths    |-> element_xpath_map,
     extracted_content |-> all_extracted_content,
     errors            |-> history.errors,
     model_actions     |-> history.model_actions,
     execution_date    |-> IF Has(ss, "execution_date")
                           THEN ss.execution_date ELSE "Unknown"]

\* Lines 246-257; history is the local variable of that name, which the
\* loop of line 102 binds to the last agent run's history.
BuildRecord(history, all_actions, element_xpath_map, all_extracted_content, ss) ==
    [urls              |-> history.urls,
     action_names      |-> history.action_names,
     detailed_actions  |-> all_actions,
     element_xpaths    |-> element_xpath_map,
     extracted_content |-> all_extracted_content,
     errors            |-> history.errors,
     model_actions     |-> history.model_actions,
     execution_date    |-> IF Has(ss, "execution_date")
                           THEN ss.execution_date ELSE "Unknown"]

\* A variant of AsyncWithExit that releases the context only when no
\* exception is passing through.
AsyncWithExitOnSuccess(context, exc) ==
    IF exc THEN context ELSE [context EXCEPT !.released = @ + 1]

\* Leaving the block of "async with" at line 81: the context manager's exit
\* runs whether or not an exception is passing through.
AsyncWithExit(context, exc) == [context EXCEPT !.released = @ + 1]

\* A variant of ExceptSession that stores what the locals hold.
ExceptSessionSavesPartial(ss, partial) == Put(ss, "history", partial)

\* What the handler of lines 345-350 does to st.session_state: nothing.  It
\* logs and displays; "partial" is what the locals hold at that moment.
ExceptSession(ss, partial) == ss

(***************************************************************************)
(* State.                                                                  *)
(***************************************************************************)
VARIABLES
    session_state,          \* st.session_state: generated_steps, history, execution_date,
                            \* automation_code
    message,                \* the last status message displayed
    main_pc,                \* where main stands in its handler of a click
    pc,                     \* where execute_test stands
    steps,                  \* execute_test's argument
    context,                \* the browser context: times acquired, times released
    scenarios,
    scenario_no,            \* position of the loop of line 102, from 1
    all_results,
    all_actions,
    all_extracted_content,
    element_xpath_map,
    history,                \* the local of line 116; the empty dict while unbound
    i,                      \* position of the loop of line 131
    content_no,             \* position of the loop of line 227, from 0
    writes,                 \* log: the assignments to element_xpath_map of this run
    histories,              \* log: the histories the agent returned in this run
    failure,                \* log: what raised in this run
    run_result,             \* log: how the last call of execute_test ended
    record_before,          \* log: session_state when this run started
    request_log,            \* log: agent runs of the current Execute request
    agent_runs,             \* log: agent runs started in the session
    items                   \* log: raw items the agent reported in the session

sessionVars == <<session_state, message>>

localVars == <<steps, scenarios, scenario_no, all_results, all_actions,
               all_extracted_content, element_xpath_map, history, i, content_no>>

logVars == <<writes, histories, failure, run_result, record_before,
             request_log, agent_runs, items>>

vars == <<sessionVars, main_pc, pc, context, localVars, logVars>>

NoContext == [acquired |-> 0, released |-> 0]

\* The locals of execute_test before line 84 has run.
LocalsInit ==
    /\ steps = <<>>
    /\ scenarios = <<>>
    /\ scenario_no = 0
    /\ all_results = <<>>
    /\ all_actions = <<>>
    /\ all_extracted_content = <<>>
    /\ element_xpath_map = EmptyDict
    /\ history = EmptyDict
    /\ i = 0
    /\ content_no = 0

LogsInit ==
    /\ writes = <<>>
    /\ histories = <<>>
    /\ failure = "none"
    /\ run_result = "none"
    /\ record_before = EmptyDict
    /\ request_log = <<>>
    /\ agent_runs = 0
    /\ items = 0

Init ==
    /\ session_state = EmptyDict
    /\ message = "none"
    /\ main_pc = "idle"
    /\ pc = "off"
    /\ context = NoContext
    /\ LocalsInit
    /\ LogsInit

(***************************************************************************)
(* Control flow of the loops of lines 102, 131 and 227: the position after *)
(* the agent run, after the last action entry and after the last content   *)
(* item of scenario number n.                                              *)
(***************************************************************************)
AfterScenario(n, scen) == IF n < Len(scen) THEN "agent" ELSE "save"

\* A variant of AfterActions that goes on without the loop of line 227.
AfterActionsSkipsContent(h, n, scen) == AfterScenario(n, scen)

AfterActions(h, n, scen) ==
    IF h.extracted_content # <<>> THEN "content" ELSE AfterScenario(n, scen)

AfterAgentRun(h, n, scen) ==
    IF h.model_actions # <<>> THEN "action" ELSE AfterActions(h, n, scen)

\* What the locals hold of a record at any moment.
PartialRecord ==
    [detailed_actions  |-> all_actions,
     element_xpaths    |-> element_xpath_map,
     extracted_content |-> all_extracted_content]

(***************************************************************************)
(* execute_test, lines 76-350.                                             *)
(***************************************************************************)
\* Lines 77-100: the context is acquired, the text is split, the
\* accumulators are created.  With no scenario the loop of line 102 is
\* skipped.
BeginRun(text) ==
    /\ pc' = IF SplitScenarios(text) = <<>> THEN "save" ELSE "agent"
    /\ steps' = text
    /\ context' = [acquired |-> 1, released |-> 0]
    /\ scenarios' = SplitScenarios(text)
    /\ scenario_no' = IF SplitScenarios(text) = <<>> THEN 0 ELSE 1
    /\ all_results' = <<>>
    /\ all_actions' = <<>>
    /\ all_extracted_content' = <<>>
    /\ element_xpath_map' = EmptyDict
    /\ history' = EmptyDict
    /\ i' = 0
    /\ content_no' = 0
    /\ writes' = <<>>
    /\ histories' = <<>>
    /\ failure' = "none"
    /\ run_result' = "running"

\* Lines 103-125: the agent of the current scenario runs to completion and
\* returns its history.
AgentRun ==
    /\ pc = "agent"
    /\ agent_runs < MaxAgentRuns
    /\ \E actions \in SeqsUpTo(ActionEntries, MaxItems - items),
          result \in FinalResults :
         \E contents \in SeqsUpTo(ContentItems, MaxItems - items - Len(actions)) :
            LET h == AgentHistory(scenario_no, actions, contents, result) IN
            /\ history' = h
            /\ all_results' = Append(all_results, NormalizeResult(h.final_result))
            /\ i' = 0
            /\ content_no' = 0
            /\ pc' = AfterAgentRun(h, scenario_no, scenarios)
            /\ scenario_no' = IF AfterAgentRun(h, scenario_no, scenarios) = "agent"
                              THEN scenario_no + 1 ELSE scenario_no
            /\ histories' = Append(histories, h)
            /\ items' = items + Len(actions) + Len(contents)
    /\ agent_runs' = agent_runs + 1
    /\ request_log' = Append(request_log,
                             [call |-> main_pc, scenario |-> scenario_no,
                              raised |-> FALSE])
    /\ UNCHANGED <<sessionVars, main_pc, context, steps, scenarios, all_actions,
                   all_extracted_content, element_xpath_map, writes, failure,
                   run_result, record_before>>

\* Line 116 raises: the exception leaves the block of line 81 and reaches the
\* handler of line 345.
AgentRaise ==
    /\ pc = "agent"
    /\ agent_runs < MaxAgentRuns
    /\ agent_runs' = agent_runs + 1
    /\ request_log' = Append(request_log,
                             [call |-> main_pc, scenario |-> scenario_no,
                              raised |-> TRUE])
    /\ failure' = "agent"
    /\ context' = AsyncWithExit(context, TRUE)
    /\ pc' = "except"
    /\ UNCHANGED <<sessionVars, main_pc, localVars, writes, histories,
                   run_result, record_before, items>>

\* One pass of the loop of lines 131-224.
ResolveActionStep ==
    /\ pc = "action"
    /\ LET r == ResolveAction(
                    history.model_actions[i + 1],
                    [action_detail |-> NewActionDetail(
                                           ActionName(history.action_names, i), i),
                     element_xpath_map |-> element_xpath_map,
                     writes |-> writes])
       IN /\ all_actions' = Append(all_actions, r.action_detail)
          /\ element_xpath_map' = r.element_xpath_map
          /\ writes' = r.writes
    /\ i' = i + 1
    /\ pc' = IF i + 1 < Len(history.model_actions) THEN "action"
             ELSE AfterActions(history, scenario_no, scenarios)
    /\ scenario_no' = IF pc' = "agent" THEN scenario_no + 1 ELSE scenario_no
    /\ UNCHANGED <<sessionVars, main_pc, context, steps, scenarios, all_results,
                   all_extracted_content, history, content_no, histories,
                   failure, run_result, record_before, request_log, agent_runs,
                   items>>

\* One pass of the loop of lines 227-243.
ResolveContentStep ==
    /\ pc = "content"
    /\ LET content == history.extracted_content[content_no + 1]
           r == ResolveContent(content,
                               [element_xpath_map |-> element_xpath_map,
                                writes |-> writes])
       IN /\ all_extracted_content' = Append(all_extracted_content, content)
          /\ element_xpath_map' = r.element_xpath_map
          /\ writes' = r.writes
    /\ content_no' = content_no + 1
    /\ pc' = IF content_no + 1 < Len(history.extracted_content) THEN "content"
             ELSE AfterScenario(scenario_no, scenarios)
    /\ scenario_no' = IF pc' = "agent" THEN scenario_no + 1 ELSE scenario_no
    /\ UNCHANGED <<sessionVars, main_pc, context, steps, scenarios, all_results,
                   all_actions, history, i, histories, failure, run_result,
                   record_before, request_log, agent_runs, items>>

\* The locals are gone when execute_test returns, and the logs of the run
\* with them.
ResetLocals ==
    /\ steps' = <<>>
    /\ scenarios' = <<>>
    /\ scenario_no' = 0
    /\ all_results' = <<>>
    /\ all_actions' = <<>>
    /\ all_extracted_content' = <<>>
    /\ element_xpath_map' = EmptyDict
    /\ history' = EmptyDict
    /\ i' = 0
    /\ content_no' = 0
    /\ writes' = <<>>
    /\ histories' = <<>>
    /\ record_before' = EmptyDict

\* Where main goes on when execute_test returns: to its second call, line
\* 697, after the first of line 646; to the end of the handler after the
\* second.
AfterReturn(at) == IF at = "first_call" THEN "between_calls" ELSE "idle"

\* Lines 246-257.  When the loop of line 102 ran no pass, the local history
\* is unbound and reading it raises UnboundLocalError, which leaves the block
\* of line 81 for the handler of line 345.
SaveRecord ==
    /\ pc = "save"
    /\ IF history = EmptyDict
       THEN /\ failure' = "unbound"
            /\ context' = AsyncWithExit(context, TRUE)
            /\ pc' = "except"
            /\ UNCHANGED session_state
       ELSE /\ session_state' =
                   Put(session_state, "history",
                       BuildRecord(history, all_actions, element_xpath_map,
                                   all_extracted_content, session_state))
            /\ pc' = "display"
            /\ UNCHANGED <<failure, context>>
    /\ UNCHANGED <<message, main_pc, localVars, writes, histories, run_result,
                   record_before, request_log, agent_runs, items>>

\* Lines 259-343, the end of the block of line 81, and the return.
DisplayAndReturn ==
    /\ pc = "display"
    /\ message' = "Test execution completed!"
    /\ context' = AsyncWithExit(context, FALSE)
    /\ pc' = "off"
    /\ run_result' = "ok"
    /\ main_pc' = AfterReturn(main_pc)
    /\ request_log' = IF AfterReturn(main_pc) = "idle" THEN <<>> ELSE request_log
    /\ ResetLocals
    /\ UNCHANGED <<session_state, failure, agent_runs, items>>

\* A variant of HandlerExit that raises the exception again.
HandlerExitReraises(exc) == "raise"

\* How the handler of lines 345-350 is left: it holds no raise statement, so
\* execute_test returns (None) to its caller whatever exception came in.
HandlerExit(exc) == "return"

\* Lines 345-350, and the return.  An exception that reached main would end
\* main's handling of the click.
HandleException ==
    /\ pc = "except"
    /\ message' = "An error occurred during test execution"
    /\ session_state' = ExceptSession(session_state, PartialRecord)
    /\ pc' = "off"
    /\ run_result' = IF HandlerExit(failure) = "return" THEN "error" ELSE "raised"
    /\ main_pc' = IF HandlerExit(failure) = "return"
                  THEN AfterReturn(main_pc) ELSE "idle"
    /\ request_log' = IF main_pc' = "idle" THEN <<>> ELSE request_log
    /\ ResetLocals
    /\ UNCHANGED <<context, failure, agent_runs, items>>

(***************************************************************************)
(* main, lines 594-697: the handlers of the buttons.                       *)
(***************************************************************************)
Today == "today"

\* "Generate Gherkin", lines 594-601 and 649-656, and the editor of lines
\* 668-676: the session's text becomes a text of the generator or of the
\* user.
SetSteps ==
    /\ main_pc = "idle"
    /\ \E text \in Texts :
          session_state' = Put(session_state, "generated_steps", text)
    /\ UNCHANGED <<message, main_pc, pc, context, localVars, logVars>>

\* "Execute Steps" with no text in the session, lines 637-641 and 690-694.
ExecuteWithoutSteps ==
    /\ main_pc = "idle"
    /\ ~Has(session_state, "generated_steps")
    /\ message' = "Please generate Gherkin scenarios first."
    /\ UNCHANGED <<session_state, main_pc, pc, context, localVars, logVars>>

\* "Execute Steps", lines 636-646: the first call of execute_test.  The click
\* reruns the script, which draws the page anew: no earlier message is on it.
ExecuteFirstCall ==
    /\ main_pc = "idle"
    /\ Has(session_state, "generated_steps")
    /\ main_pc' = "first_call"
    /\ request_log' = <<>>
    /\ record_before' = session_state
    /\ BeginRun(session_state.generated_steps)
    /\ message' = "none"
    /\ UNCHANGED <<session_state, agent_runs, items>>

\* The same click, lines 689-697: the date is stored and execute_test is
\* called again.
ExecuteSecondCall ==
    /\ main_pc = "between_calls"
    /\ main_pc' = "second_call"
    /\ session_state' = Put(session_state, "execution_date", Today)
    /\ record_before' = session_state'
    /\ BeginRun(session_state.generated_steps)
    /\ UNCHANGED <<message, request_log, agent_runs, items>>

(***************************************************************************)
(* main, lines 698-776: "Generate Code".                                   *)
(***************************************************************************)
\* The keys of FRAMEWORK_GENERATORS, lines 50-56.
Frameworks == {"Selenium + PyTest BDD (Python)", "Playwright (Python)",
               "Cypress (JavaScript)", "Robot Framework",
               "Selenium + Cucumber (Java)"}

\* A variant of CanGenerate that forgets to ask for the record.
CanGenerateWithStepsOnly(ss) == Has(ss, "generated_steps")

\* The condition of lines 700-703, negated: both keys are in the session.
CanGenerate(ss) == Has(ss, "generated_steps") /\ Has(ss, "history")

\* Lines 700-707: the request is answered with the precondition error.
GenerateCodeRefused ==
    /\ main_pc = "idle"
    /\ ~CanGenerate(session_state)
    /\ message' = "Please generate and execute Gherkin scenarios first."
    /\ UNCHANGED <<session_state, main_pc, pc, context, localVars, logVars>>

\* Lines 709-770: the generator of the selected framework is called and its
\* output stored.  The output is text written by an external model: it is
\* kept as one opaque value, whichever generator wrote it.
GenerateCode ==
    /\ main_pc = "idle"
    /\ CanGenerate(session_state)
    /\ \E selected_framework \in Frameworks :
          session_state' = Put(session_state, "automation_code",
                               "code")
    /\ message' = "Automation code generated successfully!"
    /\ UNCHANGED <<main_pc, pc, context, localVars, logVars>>

\* Lines 709-717 and 772-776: the generator is called and raises; the error
\* is displayed and nothing is stored.
GenerateCodeFails ==
    /\ main_pc = "idle"
    /\ CanGenerate(session_state)
    /\ message' = "Error generating code"
    /\ UNCHANGED <<session_state, main_pc, pc, context, localVars, logVars>>

Next ==
    \/ SetSteps
    \/ ExecuteWithoutSteps
    \/ ExecuteFirstCall
    \/ ExecuteSecondCall
    \/ GenerateCodeRefused
    \/ GenerateCode
    \/ GenerateCodeFails
    \/ AgentRun
    \/ AgentRaise
    \/ ResolveActionStep
    \/ ResolveContentStep
    \/ SaveRecord
    \/ DisplayAndReturn
    \/ HandleException

Spec == Init /\ [][Next]_vars

(***************************************************************************)
(* The splitter alone: a text is drawn and split.                          *)
(***************************************************************************)
SplitInit ==
    /\ session_state = EmptyDict
    /\ message = "none"
    /\ main_pc = "idle"
    /\ pc = "split"
    /\ context = NoContext
    /\ steps \in SplitTexts
    /\ scenarios = <<>>
    /\ scenario_no = 0
    /\ all_results = <<>>
    /\ all_actions = <<>>
    /\ all_extracted_content = <<>>
    /\ element_xpath_map = EmptyDict
    /\ history = EmptyDict
    /\ i = 0
    /\ content_no = 0
    /\ LogsInit

\* Lines 84-94.
SplitStep ==
    /\ pc = "split"
    /\ scenarios' = SplitScenarios(steps)
    /\ pc' = "split_done"
    /\ UNCHANGED <<sessionVars, main_pc, context, steps, scenario_no,
                   all_results, all_actions, all_extracted_content,
                   element_xpath_map, history, i, content_no, logVars>>

SplitNext == SplitStep

SplitSpec == SplitInit /\ [][SplitNext]_vars

(***************************************************************************)
(* Properties.                                                             *)
(***************************************************************************)
Last(seq) == seq[Len(seq)]

\* The ExecutionRecord of the session, in a list: empty while there is none.
HistoryOf(ss) == IF Has(ss, "history") THEN <<ss.history>> ELSE <<>>

\* The value of the last write of the log to index.
LastWrite(log, index) ==
    LET n == CHOOSE n \in DOMAIN log :
                 /\ log[n].index = index
                 /\ \A m \in DOMAIN log : log[m].index = index => m <= n
    IN log[n].xpath

\* map holds, for every index the log writes, the value of its last write.
HoldsLastWrites(map, log) ==
    \A n \in DOMAIN log :
        Has(map, log[n].index) /\ map[log[n].index] = LastWrite(log, log[n].index)

NoScenarioLine(text) ==
    \A n \in DOMAIN SplitLines(text, <<>>) :
        ~StartsScenario(SplitLines(text, <<>>)[n])

\* C1: a text in which no line's trimmed text starts with "Scenario:" is
\* split into exactly one block, the whole text.
C1_NoScenarioLineGivesWholeText ==
    (pc \notin {"off", "split"} /\ NoScenarioLine(steps)) => scenarios = <<steps>>

\* C2: during a run, and in the record the run stores, element_xpath_map
\* holds for every index written at least once the value of the last write to
\* that index, whichever of the three channels wrote it.
C2_LastWriterWins ==
    /\ HoldsLastWrites(element_xpath_map, writes)
    /\ pc = "display" =>
           HoldsLastWrites(session_state.history.element_xpaths, writes)

\* An index was written by a discovery action, then by the free-text pass,
\* then by an interaction action with another value, and the stored record
\* holds the last value.
C2_Witness ==
    /\ pc = "display"
    /\ \E a, b, c \in DOMAIN writes :
          /\ a < b /\ b < c /\ c = Len(writes)
          /\ writes[a].index = writes[c].index
          /\ writes[b].index = writes[c].index
          /\ writes[a].channel = "discovery"
          /\ writes[b].channel = "free-text"
          /\ writes[c].channel = "interaction"
          /\ writes[a].xpath # writes[c].xpath
          /\ writes[b].xpath # writes[c].xpath
          /\ session_state.history.element_xpaths[writes[c].index] = writes[c].xpath

\* The XPath of a content item as the claim reads it: the fragment that
\* follows the phrase, without the text after it.
XPathAlone(text) == <<Head(SearchPhrase(text).group)>>

\* C3: the free-text pass over a string item that holds both patterns adds
\* the entry N -> XPath, the XPath alone; over any other item it leaves the
\* map as it is.
C3_FreeTextEntryIsXPathAlone ==
    [][pc = "content" =>
          LET text == history.extracted_content[content_no + 1].text IN
          IF Has(SearchPhrase(text), "group") /\ Has(SearchElementIndex(text), "group")
          THEN element_xpath_map' =
                   Put(element_xpath_map,
                       ParseInt(SearchElementIndex(text).group, 0),
                       XPathAlone(text))
          ELSE element_xpath_map' = element_xpath_map]_vars

\* C4: once an agent run has raised, the session's ExecutionRecord is the one
\* it held when the run started (or there is still none), in the handler and
\* after it.
C4_NoRecordOnAgentFailure ==
    [][(pc = "except" /\ failure = "agent") =>
          /\ HistoryOf(session_state) = HistoryOf(record_before)
          /\ HistoryOf(session_state') = HistoryOf(record_before)]_vars

\* An agent run has raised in a run that started with a record in the
\* session and an earlier call's record is still the one held.
C4_Witness ==
    /\ pc = "except"
    /\ failure = "agent"
    /\ Has(record_before, "history")
    /\ HistoryOf(session_state) = HistoryOf(record_before)

\* C5: a run acquires the context once; the context is open while the run is
\* inside the block, and released once when the block has been left, by an
\* exception or normally, so before execute_test returns.
C5_ContextReleasedOnEveryPath ==
    /\ pc \in {"agent", "action", "content", "save", "display"} =>
           context = [acquired |-> 1, released |-> 0]
    /\ (pc = "except" \/ (pc = "off" /\ run_result \in {"ok", "error"})) =>
           context = [acquired |-> 1, released |-> 1]

\* execute_test has returned after an agent run raised, the context released.
C5_Witness ==
    /\ pc = "off"
    /\ run_result = "error"
    /\ failure = "agent"
    /\ context.released = 1

C7_IndexIsStreamPosition ==
    pc = "display" =>
        \A k \in DOMAIN session_state.history.detailed_actions :
            session_state.history.detailed_actions[k].index = k - 1

\* The entries of one field over all the histories of the run, in order.
RECURSIVE Combined(_, _)
Combined(hs, field) ==
    IF hs = <<>> THEN <<>> ELSE Head(hs)[field] \o Combined(Tail(hs), field)

\* C8: the stored record's urls, action_names and errors are those of every
\* scenario of the run in order, and action_names has one entry per element of
\* detailed_actions.
C8_RecordCombinesAllScenarios ==
    pc = "display" =>
        /\ session_state.history.urls = Combined(histories, "urls")
        /\ session_state.history.action_names = Combined(histories, "action_names")
        /\ session_state.history.errors = Combined(histories, "errors")
        /\ Len(session_state.history.action_names)
               = Len(session_state.history.detailed_actions)

\* C9: a call of execute_test in which no agent run raised ends with a record
\* stored and no error reported.
C9_OnlyAgentFailureIsFatal ==
    /\ (run_result = "error" /\ pc = "off") => failure = "agent"
    /\ (run_result = "ok" /\ pc = "off") => Has(session_state, "history")

\* C10: within one Execute request no scenario block has its agent run
\* started twice, and no agent run is started after one has raised.
C10_AtMostOneAttempt ==
    \A a, b \in DOMAIN request_log :
        a < b => /\ request_log[a].scenario # request_log[b].scenario
                 /\ ~request_log[a].raised

\* C11 as stated: when an agent run has raised, the exception reaches the
\* caller of execute_test, which does not return normally.
C11_FailureReachesCaller ==
    (pc = "off" /\ failure = "agent") => run_result = "raised"

\* C11 as amended: when an agent run has raised, execute_test's own handler
\* catches the exception, reports one error message, and execute_test returns
\* normally to its caller.
C11_FailureIsCaughtAndReported ==
    [][ /\ (pc = "except" /\ failure = "agent") =>
               /\ pc' = "off"
               /\ run_result' = "error"
               /\ message' = "An error occurred during test execution"
        /\ (pc' = "off" /\ failure' = "agent") => run_result' = "error"
      ]_vars

\* The first call of a request has returned after its agent run raised, and
\* main goes on to its second call.
C11_Witness ==
    /\ pc = "off"
    /\ failure = "agent"
    /\ run_result = "error"
    /\ main_pc = "between_calls"

\* The messages that only a call of a generator leaves on the page.
GeneratorMessages ==
    {"Automation code generated successfully!", "Error generating code"}

\* The session holds both the Gherkin text and an ExecutionRecord.
HoldsTextAndRecord(ss) == Has(ss, "generated_steps") /\ Has(ss, "history")

\* C12: a generator is called, and automation_code stored, only from a
\* session that holds both the Gherkin text and an ExecutionRecord, and a
\* record enters the session only at the save of a run that did not fail;
\* from a session that misses either, a request leaves no generator message
\* and no automation_code, and the precondition error is shown only from such
\* a session, which it leaves as it was.
C12_GeneratorNeedsTextAndRecord ==
    [][ /\ (\/ message' \in GeneratorMessages /\ message' # message
            \/ Has(session_state', "automation_code")
                 /\ ~Has(session_state, "automation_code"))
           => HoldsTextAndRecord(session_state)
        /\ HistoryOf(session_state') # HistoryOf(session_state)
           => pc = "save" /\ pc' = "display" /\ failure = "none"
        /\ ~HoldsTextAndRecord(session_state)
           => /\ ~Has(session_state', "automation_code")
              /\ message' \notin GeneratorMessages
        /\ (/\ message' = "Please generate and execute Gherkin scenarios first."
            /\ message' # message)
           => /\ ~HoldsTextAndRecord(session_state)
              /\ session_state' = session_state
      ]_vars

\* A generator was called from a session holding text and record and its
\* output is stored.
C12_Witness ==
    /\ Has(session_state, "automation_code")
    /\ message = "Automation code generated successfully!"
    /\ HoldsTextAndRecord(session_state)

\* C13 as stated: every entry of the combined results list has the
\* {status, details} shape, whatever the scenario's outcome.
C13_EveryResultHasStatusAndDetails ==
    \A n \in DOMAIN all_results : DOMAIN all_results[n] = {"status", "details"}

\* C13 as amended: an agent run that completes appends one entry to the
\* combined results list; for a final result that is a string s the entry is
\* exactly {status: s, details: 'Execution completed'}, and a final result
\* that is not a string is appended as it is.
C13_StringResultIsNormalized ==
    [][ (pc = "agent" /\ pc' # "except") =>
            LET result == history'.final_result
            IN all_results' =
                   Append(all_results,
                          IF result.is_str
                          THEN [status  |-> result.text,
                                details |-> "Execution completed"]
                          ELSE result.value)
      ]_vars

\* An agent run has completed with a string and its entry is in the list.
C13_Witness ==
    /\ pc \in {"action", "content", "save"}
    /\ history # EmptyDict
    /\ history.final_result.is_str
    /\ all_results # <<>>
    /\ Last(all_results) = [status  |-> history.final_result.text,
                            details |-> "Execution completed"]

\* The values v that a description holds as xpath='v'.
DescribedXPaths(desc) ==
    { <<desc[n + 1]>> : n \in { m \in 1..(Len(desc) - 2) :
                                  /\ desc[m] = XPathOpen
                                  /\ desc[m + 1] \notin QuoteTokens
                                  /\ desc[m + 2] = Quote } }

\* The entry asks for an element's XPath.
IsDiscovery(entry) == Has(entry, "get_xpath_of_element")

\* The entry types, clicks or acts on an element that its parameters name.
IsIndexedInteraction(entry) ==
    \E key \in {"input_text", "click_element", "perform_element_action"} :
        Has(entry, key) /\ Has(entry[key], "index")

\* The record appended by this step holds, as element_details.xpath, the
\* value that the description of its raw entry holds as xpath='v'.
AttachesDescribedXPath ==
    LET entry == history.model_actions[i + 1]
        d     == Last(all_actions').element_details
    IN DescribedXPaths(entry.interacted_element) # {} =>
           /\ Has(d, "xpath")
           /\ d.xpath \in DescribedXPaths(entry.interacted_element)

\* C14 as stated: the record of every raw action entry whose description
\* holds xpath='v' gets v as element_details.xpath.
C14_DescribedXPathIsAttached ==
    [][Len(all_actions') = Len(all_actions) + 1 => AttachesDescribedXPath]_vars

\* C14 as amended: the record of a discovery entry, and of an interaction
\* entry whose parameters name an index, gets v as element_details.xpath
\* when the entry's description holds xpath='v'.
C14_DescribedXPathIsAttachedToElementActions ==
    [][ (/\ Len(all_actions') = Len(all_actions) + 1
         /\ \/ IsDiscovery(history.model_actions[i + 1])
            \/ IsIndexedInteraction(history.model_actions[i + 1]))
        => AttachesDescribedXPath ]_vars

\* The record appended last is that of an interaction entry whose
\* description holds an XPath, which the record carries.
C14_Witness ==
    /\ pc = "action"
    /\ i >= 1
    /\ IsIndexedInteraction(history.model_actions[i])
    /\ DescribedXPaths(history.model_actions[i].interacted_element) # {}
    /\ Has(Last(all_actions).element_details, "xpath")
    /\ Last(all_actions).element_details.xpath
           \in DescribedXPaths(history.model_actions[i].interacted_element)

\* The line, without the white space before it, starts with Scenario:
TrimmedStartsWithScenario(line) ==
    \E n \in DOMAIN line :
        /\ line[n] = "Scenario:"
        /\ \A m \in 1..(n - 1) : line[m] \in Whitespace

\* The numbers of the lines from n on that start a block, in input order.
RECURSIVE BlockStarts(_, _)
BlockStarts(lines, n) ==
    IF n > Len(lines) THEN <<>>
    ELSE (IF TrimmedStartsWithScenario(lines[n]) THEN <<n>> ELSE <<>>)
         \o BlockStarts(lines, n + 1)

\* The k-th block: its first line and the lines up to the next first line or
\* the end of the input, joined by newlines.
BlockOf(lines, starts, k) ==
    JoinLines(SubSeq(lines, starts[k],
                     IF k < Len(starts) THEN starts[k + 1] - 1 ELSE Len(lines)))

\* C15: for a text with at least one line that, trimmed, starts with
\* Scenario:, the blocks are one per such line, in input order, each the line
\* with the lines that follow it up to the next such line or the end, joined
\* by newlines; the text 'Scenario: A\nstep1\nScenario: B\nstep2' gives the
\* two blocks 'Scenario: A\nstep1' and 'Scenario: B\nstep2'.
C15_OneBlockPerScenarioLine ==
    pc = "split_done" =>
        LET lines  == SplitLines(steps, <<>>)
            starts == BlockStarts(lines, 1)
        IN /\ starts # <<>> =>
                 /\ Len(scenarios) = Len(starts)
                 /\ \A k \in DOMAIN starts :
                        scenarios[k] = BlockOf(lines, starts, k)
           /\ steps = TextTwo =>
                 scenarios = << <<"Scenario:", " ", "A", NL, "step1">>,
                                <<"Scenario:", " ", "B", NL, "step2">> >>

\* The text of the example has been split into its two blocks.
C15_Witness ==
    /\ pc = "split_done"
    /\ steps = TextTwo
    /\ Len(scenarios) = 2

\* rec is the ActionRecord of the raw entry: it has the entry's name and,
\* for an entry that names an element, that element's index.
RecordIsOf(rec, entry) ==
    /\ rec.name = KeyOf(entry)
    /\ (IsDiscovery(entry) \/ IsIndexedInteraction(entry)) =>
           /\ Has(rec.element_details, "index")
           /\ rec.element_details.index = entry[KeyOf(entry)].index

\* The records appended so far are those of the first raw entries of the run,
\* scenario after scenario, one record per entry in the entries' order; when
\* a scenario's entries are resolved there are as many records as entries,
\* and the stored record holds them all.
RecordsFollowEntries ==
    LET entries == Combined(histories, "model_actions") IN
    /\ Len(all_actions) <= Len(entries)
    /\ \A k \in DOMAIN all_actions : RecordIsOf(all_actions[k], entries[k])
    /\ pc \in {"content", "save", "display"} => Len(all_actions) = Len(entries)
    /\ pc = "display" => session_state.history.detailed_actions = all_actions

\* C16: detailed_actions is one flat sequence with one ActionRecord per raw
\* action entry of the run, the scenarios' records in scenario order and in
\* each scenario's stream order, and until the call returns a record once
\* appended is neither removed nor moved.
C16_OneRecordPerEntryInOrder ==
    [][ /\ RecordsFollowEntries'
        /\ (pc # "off" /\ pc' # "off") =>
               \/ all_actions' = all_actions
               \/ /\ Len(all_actions') = Len(all_actions) + 1
                  /\ SubSeq(all_actions', 1, Len(all_actions)) = all_actions
      ]_vars

\* A record is stored for a run of two scenarios, each with entries.
C16_Witness ==
    /\ pc = "display"
    /\ Len(histories) = 2
    /\ histories[1].model_actions # <<>>
    /\ histories[2].model_actions # <<>>
    /\ Len(session_state.history.detailed_actions)
           = Len(histories[1].model_actions) + Len(histories[2].model_actions)

\* A pass of the free-text loop leaves the appended ActionRecords, the
\* results and the session as they are.
FreeTextPassKeepsRecords ==
    pc = "content" =>
        /\ all_actions' = all_actions
        /\ all_results' = all_results
        /\ session_state' = session_state

\* The values the free-text pass has written for index.
FreeTextValues(log, index) ==
    { log[n].xpath : n \in { m \in DOMAIN log : /\ log[m].channel = "free-text"
                                                 /\ log[m].index = index } }

\* The element index of an interaction entry that names one.
InteractionIndex(entry) == entry[KeyOf(entry)].index

\* C17 as stated: the free-text pass leaves every appended ActionRecord as it
\* is, and the record of an interaction entry resolved after the pass wrote
\* the entry's index carries an XPath the pass wrote for that index.
C17_LaterInteractionGetsFreeTextXPath ==
    [][ /\ FreeTextPassKeepsRecords
        /\ (/\ Len(all_actions') = Len(all_actions) + 1
            /\ IsIndexedInteraction(history.model_actions[i + 1])
            /\ FreeTextValues(writes, InteractionIndex(history.model_actions[i + 1]))
                   # {})
           => LET d == Last(all_actions').element_details
              IN /\ Has(d, "xpath")
                 /\ d.xpath \in FreeTextValues(
                                    writes,
                                    InteractionIndex(history.model_actions[i + 1]))
      ]_vars

\* C17 as amended: the free-text pass leaves every appended ActionRecord as
\* it is, and the record of an interaction entry resolved later carries the
\* XPath the pass wrote for the entry's index when that write is the last one
\* to the index and the entry's own description holds no XPath.
C17_LaterInteractionGetsLastFreeTextXPath ==
    [][ /\ FreeTextPassKeepsRecords
        /\ (/\ Len(all_actions') = Len(all_actions) + 1
            /\ IsIndexedInteraction(history.model_actions[i + 1])
            /\ DescribedXPaths(history.model_actions[i + 1].interacted_element) = {}
            /\ \E n \in DOMAIN writes :
                  /\ writes[n].channel = "free-text"
                  /\ writes[n].index = InteractionIndex(history.model_actions[i + 1])
                  /\ \A m \in DOMAIN writes :
                         writes[m].index = writes[n].index => m <= n)
           => LET d == Last(all_actions').element_details
              IN /\ Has(d, "xpath")
                 /\ d.xpath = LastWrite(writes,
                                        InteractionIndex(history.model_actions[i + 1]))
      ]_vars

\* In the second scenario of a run an interaction entry without an XPath of
\* its own has got the XPath that the free-text pass of the first scenario
\* wrote for its index, and the records of the first scenario are in place.
C17_Witness ==
    /\ pc \in {"action", "content", "save"}
    /\ Len(histories) = 2
    /\ i >= 1
    /\ Len(all_actions) > i
    /\ IsIndexedInteraction(history.model_actions[i])
    /\ DescribedXPaths(history.model_actions[i].interacted_element) = {}
    /\ writes # <<>>
    /\ Last(writes).channel = "free-text"
    /\ Last(writes).index = InteractionIndex(history.model_actions[i])
    /\ Has(Last(all_actions).element_details, "xpath")
    /\ Last(all_actions).element_details.xpath = Last(writes).xpath

\* The agent run of the log entry belongs to the call of execute_test that
\* is under way.
InThisCall(entry) == entry.call = main_pc

\* The agent runs started by the call under way, in the order of their start.
RunsOfCall == SelectSeq(request_log, InThisCall)

\* The k-th agent run of the call is that of the k-th block: each block's run
\* is started once and in list order, and a call that reaches the end of its
\* loop has started one run per block.
RunsFollowScenarioList ==
    pc # "off" =>
        /\ \A k \in DOMAIN RunsOfCall : RunsOfCall[k].scenario = k
        /\ Len(RunsOfCall) <= Len(scenarios)
        /\ pc \in {"save", "display"} => Len(RunsOfCall) = Len(scenarios)

\* C18: within one call of execute_test the scenarios are processed one
\* after another in list order: one agent run is started per block, and the
\* run of a later block is started only when the run before it has
\* completed and every action entry and content item it returned has been
\* resolved.
C18_ScenariosRunOneAfterAnother ==
    [][ /\ RunsFollowScenarioList'
        /\ (agent_runs' = agent_runs + 1 /\ scenario_no > 1) =>
               /\ Len(histories) = scenario_no - 1
               /\ history = Last(histories)
               /\ ~Last(request_log).raised
               /\ i = Len(history.model_actions)
               /\ content_no = Len(history.extracted_content)
               /\ Len(all_actions) = Len(Combined(histories, "model_actions"))
               /\ Len(all_extracted_content)
                      = Len(Combined(histories, "extracted_content"))
      ]_vars

\* The run of the second block has been started after the run of the first
\* returned action entries and content items.
C18_Witness ==
    /\ pc # "off"
    /\ Len(RunsOfCall) = 2
    /\ histories # <<>>
    /\ histories[1].model_actions # <<>>
    /\ histories[1].extracted_content # <<>>

=============================================================================
